---- MODULE Spec2Model ----
(***************************************************************************)
(* The event log simulator of src/src/event_log_generator.py over the      *)
(* operation catalog of src/src/operations.py.                             *)
(*                                                                         *)
(* Instants and durations are counted in ticks of 1/16 minute.  Every     *)
(* draw of the model is a multiple of 1/16, so every sum the code forms in *)
(* binary floating point and every timedelta it builds is exact and the    *)
(* tick arithmetic below is the code's arithmetic.  A field the code       *)
(* records with round(x, 2) is held as a whole number of hundredths of a   *)
(* minute.  Probabilities are held per mille.                              *)
(***************************************************************************)
EXTENDS Integers, Sequences, FiniteSets, TLC

\* ------------------------------------------------------------------ bounds
MaxCases == 2
MaxDefects == 2
MaxLow == 1
MaxRuns == 3
\* the narrower bounds of the specifications of repeated calls and of
\* misconfiguration
FewCases == 1
FewDefects == 1

\* ------------------------------------------------------------- state
VARIABLES
  pc,                      \* where generate_event_log stands
  num_cases, start_date, seed,
  OPERATION_SEQUENCE, REWORK_ROUTES,
  py_state, np_state,      \* random and np.random: the seed and the draws since
  py_tape, np_tape,        \* what each generator yields after each seed
  events, workstation_availability, case_arrival_time,
  case_num, current_time, operation_counts, defects_by_op, op_idx,
  df,                      \* the returned frame
  raised,                  \* the exception that ended the call
  redirects,               \* the rework redirects of the run, in order
  latent_count,            \* the latent defects drawn in the run
  low_count,               \* the durations drawn far under the mean in the run
  calls                    \* the calls the process has finished

vars ==
  << pc, num_cases, start_date, seed, OPERATION_SEQUENCE, REWORK_ROUTES,
     py_state, np_state, py_tape, np_tape, events, workstation_availability,
     case_arrival_time, case_num, current_time, operation_counts,
     defects_by_op, op_idx, df, raised, redirects, latent_count, low_count,
     calls >>

config == << OPERATION_SEQUENCE, REWORK_ROUTES >>
args == << num_cases, start_date, seed >>
case_state == << current_time, operation_counts, defects_by_op, op_idx >>

\* ticks in a minute: four binary places
TicksPerMinute == 2 ^ 4
Minutes(m) == m * TicksPerMinute

\* ------------------------------------------------------ operations.py
OPERATIONS ==
  << [id |-> "OP1", name |-> "Raw Material Preparation",
      avg_duration_minutes |-> 15, std_deviation_minutes |-> 3,
      setup_time_minutes |-> 5, defect_rate |-> 20, workstation_count |-> 2],
     [id |-> "OP2", name |-> "CNC Machining",
      avg_duration_minutes |-> 45, std_deviation_minutes |-> 8,
      setup_time_minutes |-> 10, defect_rate |-> 50, workstation_count |-> 3],
     [id |-> "OP3", name |-> "Heat Treatment",
      avg_duration_minutes |-> 90, std_deviation_minutes |-> 10,
      setup_time_minutes |-> 15, defect_rate |-> 30, workstation_count |-> 1],
     [id |-> "OP4", name |-> "Surface Finishing",
      avg_duration_minutes |-> 30, std_deviation_minutes |-> 5,
      setup_time_minutes |-> 8, defect_rate |-> 40, workstation_count |-> 2],
     [id |-> "OP5", name |-> "Quality Control",
      avg_duration_minutes |-> 20, std_deviation_minutes |-> 4,
      setup_time_minutes |-> 3, defect_rate |-> 0, workstation_count |-> 2],
     [id |-> "OP6", name |-> "Assembly & Packaging",
      avg_duration_minutes |-> 25, std_deviation_minutes |-> 5,
      setup_time_minutes |-> 5, defect_rate |-> 20, workstation_count |-> 2] >>

\* the module globals as the source sets them
StandardSequence == << "OP1", "OP2", "OP3", "OP4", "OP5", "OP6" >>
StandardRoutes == [k \in {"OP2", "OP3", "OP4"} |-> k]

\* what get_operation_by_id yields where the code raises ValueError
NotFound == [error |-> "ValueError"]
\* what list.index yields where the code raises ValueError
NotInList == 0 - 1

\* get_operation_by_id: the first catalog entry with that id, else ValueError
RECURSIVE FindOperation(_, _)
FindOperation(op_id, i) ==
  IF i > Len(OPERATIONS) THEN NotFound
  ELSE IF OPERATIONS[i].id = op_id THEN OPERATIONS[i]
  ELSE FindOperation(op_id, i + 1)

\* get_operation_by_id with the first catalog entry for an unknown id
get_operation_or_first(op_id) ==
  IF FindOperation(op_id, 1) = NotFound THEN OPERATIONS[1]
  ELSE FindOperation(op_id, 1)

get_operation_by_id(op_id) == FindOperation(op_id, 1)

\* list.index: the 0-based position of the first occurrence, else ValueError
RECURSIVE IndexFrom(_, _, _)
IndexFrom(seq, x, i) ==
  IF i > Len(seq) THEN NotInList
  ELSE IF seq[i] = x THEN i - 1
  ELSE IndexFrom(seq, x, i + 1)

get_operation_index(sequence, op_id) == IndexFrom(sequence, op_id, 1)

\* DictGet that gives the default for every key
DictGetDefault(d, k, default) == default

\* dict.get(key, default)
DictGet(d, k, default) == IF k \in DOMAIN d THEN d[k] ELSE default

\* ------------------------------------------------- inputs and draws
DefaultSeed == 42
Seeds == {DefaultSeed, 7}
\* the generators before any seed() call of the process
Unseeded == 0 - 1
\* datetime(2024, 1, 1, 8, 0, 0), in ticks since that day's midnight
DefaultStartDate == Minutes(8 * 60)
CaseCounts == -1 .. MaxCases

\* standard exponential draws, in sixteenths: 0.5 and 4
ExpRaw == {8, 64}
\* standard normal draws, in sixteenths: -4 and 0.125
NormalRaw == {-64, 2}
\* random.random() draws, per mille
UniformRaw == {10, 900}

\* Inspection with the scan of line 102 at the final stage
InspectionAtFinal == "OP6"

ArrivalMean == 30
DurationFloor == 5
DetectionRate == 800
Inspection == "OP5"

\* Exponential with the sign of the draw turned
ExponentialNegated(scale, e) == 0 - scale * e

\* np.random.exponential(scale): scale * a standard exponential draw
Exponential(scale, e) == scale * e
\* np.random.normal(loc, scale): loc + scale * a standard normal draw
Normal(loc, scale, z) == Minutes(loc) + scale * z

Max(a, b) == IF a >= b THEN a ELSE b

\* round(x, 2) of x = t ticks: the nearest hundredth of a minute, a tie to
\* the even one
Round2(t) ==
  LET n == t * 100
      q == n \div TicksPerMinute
      r == n % TicksPerMinute
  IN IF 2 * r < TicksPerMinute THEN q
     ELSE IF 2 * r > TicksPerMinute THEN q + 1
     ELSE IF q % 2 = 0 THEN q ELSE q + 1

\* ------------------------------------------- binary floating point
\* A double x with 1 <= x < 4096 is held exactly, as x * 2^52 written in
\* five limbs of twelve bits, the lowest first (the top limb is not cut).
LimbBase == 2 ^ 12
UnitLimb == 2 ^ 4

RECURSIVE Log2(_)
Log2(n) == IF n < 2 THEN 0 ELSE 1 + Log2(n \div 2)

RECURSIVE CarryFrom(_, _)
CarryFrom(l, i) ==
  IF i >= Len(l) THEN l
  ELSE CarryFrom([l EXCEPT ![i] = l[i] % LimbBase,
                           ![i + 1] = l[i + 1] + l[i] \div LimbBase], i + 1)

\* the binary exponent of x: its unit in the last place is 2^(exponent - 52)
Exponent(l) == Log2(l[Len(l)]) - Log2(UnitLimb)

\* round-to-nearest, ties to even, of l + num/den to the 53 bits of a double
RoundToDouble(l, num, den) ==
  LET ulp == 2 ^ Exponent(l)
      low == l[1] % ulp
      twice == 2 * (low * den + num)
      up == \/ twice > ulp * den
            \/ twice = ulp * den /\ (l[1] \div ulp) % 2 = 1
  IN CarryFrom([l EXCEPT ![1] = l[1] - low + (IF up THEN ulp ELSE 0)], 1)

\* the double a two-decimal value of h hundredths is stored as: the double
\* nearest to h / 100, by long division of h * 2^52 by 100
NearestDouble(h) ==
  LET d4 == UnitLimb * h
      d3 == (d4 % 100) * LimbBase
      d2 == (d3 % 100) * LimbBase
      d1 == (d2 % 100) * LimbBase
      d0 == (d1 % 100) * LimbBase
  IN RoundToDouble(<< d0 \div 100, d1 \div 100, d2 \div 100, d3 \div 100,
                      d4 \div 100 >>, d0 % 100, 100)

\* x + y on doubles: the exact sum, rounded
FloatAdd(x, y) ==
  RoundToDouble(CarryFrom([i \in 1 .. Len(x) |-> x[i] + y[i]], 1), 0, 1)

\* f"CASE-{case_num:04d}": the decimal digits, zero-padded to four
RECURSIVE Digits(_)
Digits(n) == IF n < 10 THEN << n >> ELSE Append(Digits(n \div 10), n % 10)

\* CaseId with the identifier formatted from the case count of the call
CaseIdOfCount(n) ==
  LET d == Digits(num_cases)
  IN IF Len(d) >= 4 THEN d ELSE [i \in 1 .. (4 - Len(d)) |-> 0] \o d

CaseId(n) ==
  LET d == Digits(n)
  IN IF Len(d) >= 4 THEN d ELSE [i \in 1 .. (4 - Len(d)) |-> 0] \o d

\* string order on case identifiers
RECURSIVE StrLess(_, _)
StrLess(a, b) ==
  IF b = << >> THEN FALSE
  ELSE IF a = << >> THEN TRUE
  ELSE IF Head(a) # Head(b) THEN Head(a) < Head(b)
  ELSE StrLess(Tail(a), Tail(b))

\* KeyLess on the case identifier alone
KeyLessByCase(a, b) == StrLess(a.case_id, b.case_id)

\* KeyLess with the later start instant first
KeyLessLatestFirst(a, b) ==
  \/ a.timestamp_start > b.timestamp_start
  \/ /\ a.timestamp_start = b.timestamp_start
     /\ StrLess(a.case_id, b.case_id)

\* the order of sort_values on ["timestamp_start", "case_id"]
KeyLess(a, b) ==
  \/ a.timestamp_start < b.timestamp_start
  \/ /\ a.timestamp_start = b.timestamp_start
     /\ StrLess(a.case_id, b.case_id)

\* the place of rows[i] in the sorted frame: after every row of a lesser key
\* and after the earlier rows of an equal key (the sort is a stable one)
Rank(rows, i) ==
  1 + Cardinality({j \in 1 .. Len(rows) :
                     \/ KeyLess(rows[j], rows[i])
                     \/ ~KeyLess(rows[i], rows[j]) /\ j < i})

sort_values(rows) ==
  [p \in 1 .. Len(rows) |->
     rows[CHOOSE i \in 1 .. Len(rows) : Rank(rows, i) = p]]

\* df["duration_minutes"] = (timestamp_end - timestamp_start) in minutes
WithDuration(row) ==
  [case_id |-> row.case_id, activity |-> row.activity,
   operation_id |-> row.operation_id,
   timestamp_start |-> row.timestamp_start,
   timestamp_end |-> row.timestamp_end, resource |-> row.resource,
   is_rework |-> row.is_rework, rework_count |-> row.rework_count,
   wait_time_minutes |-> row.wait_time_minutes,
   cycle_time_minutes |-> row.cycle_time_minutes,
   setup_time_minutes |-> row.setup_time_minutes,
   total_time_minutes |-> row.total_time_minutes,
   defect_detected |-> row.defect_detected,
   duration_minutes |-> row.timestamp_end - row.timestamp_start]

\* ------------------------------------------ calculate_case_lead_times
SetMin(S) == CHOOSE x \in S : \A y \in S : x <= y
SetMax(S) == CHOOSE x \in S : \A y \in S : x >= y

\* groupby("case_id"): the rows of one case
RowsOf(event_log, cid) ==
  {i \in DOMAIN event_log : event_log[i].case_id = cid}

\* calculate_case_lead_times with end_time taken from the first row of the
\* case instead of the greatest end instant
LeadTimesOfFirstRow(event_log) ==
  [cid \in {event_log[i].case_id : i \in DOMAIN event_log} |->
     LET rows == RowsOf(event_log, cid)
         start_time == SetMin({event_log[i].timestamp_start : i \in rows})
         end_time == event_log[SetMin(rows)].timestamp_end
     IN [start_time |-> start_time, end_time |-> end_time,
         total_operations |-> Cardinality(rows),
         total_reworks |-> Cardinality({i \in rows : event_log[i].is_rework}),
         lead_time_minutes |-> end_time - start_time]]

\* lines 151-168: one row for each case identifier, with the least start
\* instant, the greatest end instant, the number of rows, the number of
\* rework rows and the lead time (here in ticks); the two sums of rounded
\* durations are left out
calculate_case_lead_times(event_log) ==
  [cid \in {event_log[i].case_id : i \in DOMAIN event_log} |->
     LET rows == RowsOf(event_log, cid)
         start_time == SetMin({event_log[i].timestamp_start : i \in rows})
         end_time == SetMax({event_log[i].timestamp_end : i \in rows})
     IN [start_time |-> start_time, end_time |-> end_time,
         total_operations |-> Cardinality(rows),
         total_reworks |-> Cardinality({i \in rows : event_log[i].is_rework}),
         lead_time_minutes |-> end_time - start_time]]

\* ---------------------------------------------- calculate_wip_by_step
\* InProgress with the end instant of an event counted in
InProgressClosed(event_log, op_id, time_point) ==
  Cardinality({i \in DOMAIN event_log :
                 /\ event_log[i].operation_id = op_id
                 /\ event_log[i].timestamp_start <= time_point
                 /\ event_log[i].timestamp_end >= time_point})

\* lines 93-97: the rows of a stage that have started and not ended at
\* time_point
InProgress(event_log, op_id, time_point) ==
  Cardinality({i \in DOMAIN event_log :
                 /\ event_log[i].operation_id = op_id
                 /\ event_log[i].timestamp_start <= time_point
                 /\ event_log[i].timestamp_end > time_point})

\* lines 75-83: the snapshots, one every interval from the least start
\* instant up to the greatest end instant
TimePoints(event_log, time_interval_minutes) ==
  LET start_time ==
        SetMin({event_log[i].timestamp_start : i \in DOMAIN event_log})
      end_time ==
        SetMax({event_log[i].timestamp_end : i \in DOMAIN event_log})
  IN {start_time + k * Minutes(time_interval_minutes) :
        k \in 0 .. ((end_time - start_time) \div
                      Minutes(time_interval_minutes))}

\* lines 68-110: for every snapshot, the in_progress count of every stage
\* of the sequence
calculate_wip_by_step(event_log, time_interval_minutes) ==
  [time_point \in TimePoints(event_log, time_interval_minutes) |->
     [op_id \in {OPERATION_SEQUENCE[k] : k \in DOMAIN OPERATION_SEQUENCE} |->
        InProgress(event_log, op_id, time_point)]]

\* ------------------------------------------------- discover_real_flow
\* " -> ".join(ids)
RECURSIVE Join(_)
Join(ids) ==
  IF ids = << >> THEN ""
  ELSE IF Len(ids) = 1 THEN ids[1]
  ELSE ids[1] \o " -> " \o Join(Tail(ids))

\* lines 49-52: for every case of the log, the operation_id of its rows in
\* the order of the rows, joined
traces(event_log) ==
  [cid \in {event_log[i].case_id : i \in DOMAIN event_log} |->
     LET rows == SelectSeq(event_log, LAMBDA r : r.case_id = cid)
     IN Join([k \in DOMAIN rows |-> rows[k].operation_id])]

\* line 61
standard_trace == Join(OPERATION_SEQUENCE)

\* ----------------------------------------------- the two generators
\* A generator is a fixed function of its seed and the number of draws since:
\* what it yields at a position it has been at before is what it yielded
\* then, and a fresh value otherwise.
Seen(tape, st) == st.pos < Len(tape[st.seed])
Yield(tape, st, fresh) ==
  IF Seen(tape, st) THEN tape[st.seed][st.pos + 1] ELSE fresh
Taped(tape, st, v) ==
  IF Seen(tape, st) THEN tape ELSE [tape EXCEPT ![st.seed] = Append(@, v)]
Advance(st) == [st EXCEPT !.pos = @ + 1]
Seeded(s) == [seed |-> s, pos |-> 0]

\* ------------------------------------------------------------ helpers
Range(seq) == {seq[i] : i \in 1 .. Len(seq)}
CatalogIds == {OPERATIONS[i].id : i \in 1 .. Len(OPERATIONS)}

\* EarliestWs with the last index of the least instant
EarliestWsLast(ws) ==
  (CHOOSE i \in 1 .. Len(ws) :
     /\ \A j \in 1 .. Len(ws) : ws[i] <= ws[j]
     /\ \A j \in (i + 1) .. Len(ws) : ws[j] > ws[i]) - 1

\* min(range(len(ws)), key=lambda i: ws[i]): the first index (0-based) of
\* the least instant
EarliestWs(ws) ==
  (CHOOSE i \in 1 .. Len(ws) :
     /\ \A j \in 1 .. Len(ws) : ws[i] <= ws[j]
     /\ \A j \in 1 .. (i - 1) : ws[j] > ws[i]) - 1

\* defects_by_op[k] = v on a dict that keeps insertion order
RECURSIVE KeyPos(_, _, _)
KeyPos(d, k, i) ==
  IF i > Len(d) THEN 0 ELSE IF d[i].op = k THEN i ELSE KeyPos(d, k, i + 1)

\* DictSet with the defect recorded against the inspection stage, whatever
\* the stage visited
DictSetAtInspection(d, k, v) ==
  LET i == KeyPos(d, Inspection, 1)
  IN IF i = 0 THEN Append(d, [op |-> Inspection, had |-> v])
     ELSE [d EXCEPT ![i].had = v]

DictSet(d, k, v) ==
  LET i == KeyPos(d, k, 1)
  IN IF i = 0 THEN Append(d, [op |-> k, had |-> v])
     ELSE [d EXCEPT ![i].had = v]

\* a fresh duration draw far under the mean is one of at most `cap` in a run
Low(z) == z < 0
LowAllowed(z, cap) == (Low(z) /\ ~Seen(np_tape, np_state)) => low_count < cap
LowCounted(z) == IF Low(z) THEN low_count + 1 ELSE low_count

\* Occupy with the visit started at the case's cursor, whatever the slot
OccupyAtCursor(op_id, op, z) ==
  LET ws_availability == workstation_availability[op_id]
      earliest_ws_idx == EarliestWs(ws_availability)
      earliest_available == ws_availability[earliest_ws_idx + 1]
      wait_time == Max(0, earliest_available - current_time)
      operation_start == current_time
      cycle_time ==
        Max(Minutes(DurationFloor),
            Normal(op.avg_duration_minutes, op.std_deviation_minutes, z))
      total_time == cycle_time + Minutes(op.setup_time_minutes)
      operation_end == operation_start + total_time
  IN [earliest_ws_idx |-> earliest_ws_idx, wait_time |-> wait_time,
      operation_start |-> operation_start, cycle_time |-> cycle_time,
      total_time |-> total_time, operation_end |-> operation_end]

\* Occupy with the visit started when the slot is free, whatever the cursor
OccupyAtSlot(op_id, op, z) ==
  LET ws_availability == workstation_availability[op_id]
      earliest_ws_idx == EarliestWs(ws_availability)
      earliest_available == ws_availability[earliest_ws_idx + 1]
      wait_time == Max(0, earliest_available - current_time)
      operation_start == earliest_available
      cycle_time ==
        Max(Minutes(DurationFloor),
            Normal(op.avg_duration_minutes, op.std_deviation_minutes, z))
      total_time == cycle_time + Minutes(op.setup_time_minutes)
      operation_end == operation_start + total_time
  IN [earliest_ws_idx |-> earliest_ws_idx, wait_time |-> wait_time,
      operation_start |-> operation_start, cycle_time |-> cycle_time,
      total_time |-> total_time, operation_end |-> operation_end]

\* Occupy with the wait the plain difference of the slot's instant and the
\* cursor, under 0 when the slot has been free for a while
OccupyWaitSigned(op_id, op, z) ==
  LET ws_availability == workstation_availability[op_id]
      earliest_ws_idx == EarliestWs(ws_availability)
      earliest_available == ws_availability[earliest_ws_idx + 1]
      wait_time == earliest_available - current_time
      operation_start == Max(current_time, earliest_available)
      cycle_time ==
        Max(Minutes(DurationFloor),
            Normal(op.avg_duration_minutes, op.std_deviation_minutes, z))
      total_time == cycle_time + Minutes(op.setup_time_minutes)
      operation_end == operation_start + total_time
  IN [earliest_ws_idx |-> earliest_ws_idx, wait_time |-> wait_time,
      operation_start |-> operation_start, cycle_time |-> cycle_time,
      total_time |-> total_time, operation_end |-> operation_end]

\* Occupy with the duration the normal draw itself, without the floor
OccupyUnfloored(op_id, op, z) ==
  LET ws_availability == workstation_availability[op_id]
      earliest_ws_idx == EarliestWs(ws_availability)
      earliest_available == ws_availability[earliest_ws_idx + 1]
      wait_time == Max(0, earliest_available - current_time)
      operation_start == Max(current_time, earliest_available)
      cycle_time ==
        Normal(op.avg_duration_minutes, op.std_deviation_minutes, z)
      total_time == cycle_time + Minutes(op.setup_time_minutes)
      operation_end == operation_start + total_time
  IN [earliest_ws_idx |-> earliest_ws_idx, wait_time |-> wait_time,
      operation_start |-> operation_start, cycle_time |-> cycle_time,
      total_time |-> total_time, operation_end |-> operation_end]

\* lines 81-98 of a stage visit: the slot, the wait, the start, the
\* duration and the end
Occupy(op_id, op, z) ==
  LET ws_availability == workstation_availability[op_id]
      earliest_ws_idx == EarliestWs(ws_availability)
      earliest_available == ws_availability[earliest_ws_idx + 1]
      wait_time == Max(0, earliest_available - current_time)
      operation_start == Max(current_time, earliest_available)
      cycle_time ==
        Max(Minutes(DurationFloor),
            Normal(op.avg_duration_minutes, op.std_deviation_minutes, z))
      total_time == cycle_time + Minutes(op.setup_time_minutes)
      operation_end == operation_start + total_time
  IN [earliest_ws_idx |-> earliest_ws_idx, wait_time |-> wait_time,
      operation_start |-> operation_start, cycle_time |-> cycle_time,
      total_time |-> total_time, operation_end |-> operation_end]

\* Event with the defect_detected field left false whatever the inspection
\* found
EventUnflagged(op_id, op, o, count, defect_detected) ==
  [case_id |-> CaseId(case_num), activity |-> op.name,
   operation_id |-> op_id,
   timestamp_start |-> o.operation_start,
   timestamp_end |-> o.operation_end,
   resource |-> << op_id, o.earliest_ws_idx + 1 >>,
   is_rework |-> count > 1, rework_count |-> count,
   wait_time_minutes |-> Round2(o.wait_time),
   cycle_time_minutes |-> Round2(o.cycle_time),
   setup_time_minutes |-> Round2(Minutes(op.setup_time_minutes)),
   total_time_minutes |-> Round2(o.total_time),
   defect_detected |-> FALSE]

\* lines 118-133: the record appended to events
Event(op_id, op, o, count, defect_detected) ==
  [case_id |-> CaseId(case_num), activity |-> op.name,
   operation_id |-> op_id,
   timestamp_start |-> o.operation_start,
   timestamp_end |-> o.operation_end,
   resource |-> << op_id, o.earliest_ws_idx + 1 >>,
   is_rework |-> count > 1, rework_count |-> count,
   wait_time_minutes |-> Round2(o.wait_time),
   cycle_time_minutes |-> Round2(o.cycle_time),
   setup_time_minutes |-> Round2(Minutes(op.setup_time_minutes)),
   total_time_minutes |-> Round2(o.total_time),
   defect_detected |-> defect_detected]

\* NextIndex without the "- 1" that makes up for the increment of line 137
NextIndexPastTarget(redirected, rework_idx) ==
  (IF redirected THEN rework_idx ELSE op_idx) + 1

\* NextIndex with a redirect that goes back to the head of the sequence
NextIndexRestarts(redirected, rework_idx) ==
  IF redirected THEN 0 ELSE op_idx + 1

\* NextIndex without the increment of line 137 after a visit with no redirect
NextIndexStays(redirected, rework_idx) ==
  IF redirected THEN rework_idx ELSE op_idx

\* NextIndex with a step of two after a visit with no redirect
NextIndexSkips(redirected, rework_idx) ==
  IF redirected THEN rework_idx ELSE op_idx + 2

\* lines 109 and 137: the index the case goes on at, a redirect's target or
\* the next one
NextIndex(redirected, rework_idx) ==
  (IF redirected THEN rework_idx - 1 ELSE op_idx) + 1

\* Scan without the break of line 111: every latent defect that is set gets
\* its draw, and the last one detected is the one found
RECURSIVE ScanOnFrom(_, _, _, _, _, _)
ScanOnFrom(d, i, st, tape, us, hit) ==
  IF i > Len(d) THEN [hit |-> hit, st |-> st, tape |-> tape]
  ELSE IF ~d[i].had THEN ScanOnFrom(d, i + 1, st, tape, us, hit)
  ELSE ScanOnFrom(d, i + 1, Advance(st), Taped(tape, st, Yield(tape, st, us[i])),
                  us, IF Yield(tape, st, us[i]) < DetectionRate THEN i ELSE hit)

ScanOn(d, i, st, tape, us) == ScanOnFrom(d, i, st, tape, us, 0)

\* lines 104-111: the latent defects in insertion order, one detection draw
\* for each that is set, until the first draw under the detection rate
RECURSIVE Scan(_, _, _, _, _)
Scan(d, i, st, tape, us) ==
  IF i > Len(d) THEN [hit |-> 0, st |-> st, tape |-> tape]
  ELSE IF ~d[i].had THEN Scan(d, i + 1, st, tape, us)
  ELSE LET u == Yield(tape, st, us[i])
       IN IF u < DetectionRate
          THEN [hit |-> i, st |-> Advance(st), tape |-> Taped(tape, st, u)]
          ELSE Scan(d, i + 1, Advance(st), Taped(tape, st, u), us)

\* ------------------------------------------------------------ actions
Tapes == [s \in Seeds \cup {Unseeded} |-> << >>]

\* the process before its first call, with the module globals as given
Start(sequence, routes) ==
  /\ pc = "idle"
  /\ num_cases = 0 /\ start_date = 0 /\ seed = 0
  /\ OPERATION_SEQUENCE = sequence
  /\ REWORK_ROUTES = routes
  /\ py_state = Seeded(Unseeded) /\ np_state = Seeded(Unseeded)
  /\ py_tape = Tapes /\ np_tape = Tapes
  /\ events = << >>
  /\ workstation_availability = [id \in CatalogIds |-> << >>]
  /\ case_arrival_time = 0 /\ case_num = 0 /\ current_time = 0
  /\ operation_counts = << >> /\ defects_by_op = << >> /\ op_idx = 0
  /\ df = << >> /\ raised = "" /\ redirects = << >> /\ latent_count = 0
  /\ low_count = 0
  /\ calls = << >>

Init == Start(StandardSequence, StandardRoutes)

\* Enter without np.random.seed(seed): numpy's generator goes on from where
\* the process left it
EnterKeepsGenerator(n, d, s) ==
  /\ num_cases' = n /\ start_date' = d /\ seed' = s
  /\ py_state' = Seeded(s)
  /\ np_state' = np_state
  /\ events' = << >>
  /\ workstation_availability' =
       [id \in CatalogIds |->
          [i \in 1 .. get_operation_by_id(id).workstation_count |-> d]]
  /\ case_arrival_time' = d
  /\ case_num' = 0
  /\ pc' = "for"
  /\ df' = << >> /\ raised' = "" /\ redirects' = << >> /\ latent_count' = 0
  /\ low_count' = 0
  /\ current_time' = 0 /\ operation_counts' = << >>
  /\ defects_by_op' = << >> /\ op_idx' = 0
  /\ UNCHANGED << config, py_tape, np_tape, calls >>

\* Enter with a pool of one slot for every stage, whatever its
\* workstation_count
EnterOneSlot(n, d, s) ==
  /\ num_cases' = n /\ start_date' = d /\ seed' = s
  /\ py_state' = Seeded(s)
  /\ np_state' = Seeded(s)
  /\ events' = << >>
  /\ workstation_availability' = [id \in CatalogIds |-> << d >>]
  /\ case_arrival_time' = d
  /\ case_num' = 0
  /\ pc' = "for"
  /\ df' = << >> /\ raised' = "" /\ redirects' = << >> /\ latent_count' = 0
  /\ low_count' = 0
  /\ current_time' = 0 /\ operation_counts' = << >>
  /\ defects_by_op' = << >> /\ op_idx' = 0
  /\ UNCHANGED << config, py_tape, np_tape, calls >>

\* lines 48-59: seed both generators, build the pool, start the arrivals
Enter(n, d, s) ==
  /\ num_cases' = n /\ start_date' = d /\ seed' = s
  /\ py_state' = Seeded(s)
  /\ np_state' = Seeded(s)
  /\ events' = << >>
  /\ workstation_availability' =
       [id \in CatalogIds |->
          [i \in 1 .. get_operation_by_id(id).workstation_count |-> d]]
  /\ case_arrival_time' = d
  /\ case_num' = 0
  /\ pc' = "for"
  /\ df' = << >> /\ raised' = "" /\ redirects' = << >> /\ latent_count' = 0
  /\ low_count' = 0
  /\ current_time' = 0 /\ operation_counts' = << >>
  /\ defects_by_op' = << >> /\ op_idx' = 0
  /\ UNCHANGED << config, py_tape, np_tape, calls >>

\* the first call of the process
Call(counts, seeds) ==
  /\ pc = "idle"
  /\ \E n \in counts, s \in seeds : Enter(n, DefaultStartDate, s)

\* a later call of the same process, after one that returned or raised
CallAgain(counts, seeds) ==
  /\ pc \in {"returned", "raised"}
  /\ Len(calls) < MaxRuns
  /\ \E n \in counts, s \in seeds : Enter(n, DefaultStartDate, s)

\* ResetCounts that keeps the counters of the case before, when there is one
CarryCounts ==
  IF operation_counts = << >> THEN [id \in Range(OPERATION_SEQUENCE) |-> 0]
  ELSE operation_counts

\* line 70: a counter at zero for every stage of the sequence
ResetCounts == [id \in Range(OPERATION_SEQUENCE) |-> 0]

\* lines 61-74: the next case arrives
NextCase ==
  /\ pc = "for"
  /\ case_num < num_cases
  /\ \E e \in ExpRaw :
       /\ e = Yield(np_tape, np_state, e)
       /\ np_tape' = Taped(np_tape, np_state, e)
       /\ np_state' = Advance(np_state)
       /\ case_arrival_time' = case_arrival_time + Exponential(ArrivalMean, e)
  /\ case_num' = case_num + 1
  /\ current_time' = case_arrival_time'
  /\ operation_counts' = ResetCounts
  /\ defects_by_op' = << >>
  /\ op_idx' = 0
  /\ pc' = "while"
  /\ UNCHANGED << args, config, py_state, py_tape, events,
                  workstation_availability, df, raised, redirects,
                  latent_count, low_count, calls >>

\* A run holds one visit of every stage for each case and at most one further
\* pass of the sequence for each latent defect; no step is taken beyond that.
WithinRun ==
  Len(events) < Len(OPERATION_SEQUENCE) * (num_cases + latent_count)

\* lines 75-137 at a stage other than the inspection
StepOperation(cap, low) ==
  /\ pc = "while"
  /\ op_idx < Len(OPERATION_SEQUENCE)
  /\ WithinRun
  /\ LET op_id == OPERATION_SEQUENCE[op_idx + 1]
         op == get_operation_by_id(op_id)
     IN /\ op # NotFound
        /\ op_id # Inspection
        /\ \E z \in NormalRaw, u \in UniformRaw :
           \E o \in {Occupy(op_id, op, z)} :
             LET count == operation_counts[op_id] + 1
                 defect == u < op.defect_rate
             IN /\ z = Yield(np_tape, np_state, z)
                /\ LowAllowed(z, low)
                /\ low_count' = LowCounted(z)
                /\ u = Yield(py_tape, py_state, u)
                /\ (defect /\ ~Seen(py_tape, py_state)) => latent_count < cap
                /\ np_tape' = Taped(np_tape, np_state, z)
                /\ np_state' = Advance(np_state)
                /\ py_tape' = Taped(py_tape, py_state, u)
                /\ py_state' = Advance(py_state)
                /\ operation_counts' = [operation_counts EXCEPT ![op_id] = count]
                /\ workstation_availability' =
                     [workstation_availability EXCEPT
                        ![op_id][o.earliest_ws_idx + 1] = o.operation_end]
                /\ defects_by_op' =
                     IF defect THEN DictSet(defects_by_op, op_id, TRUE)
                     ELSE defects_by_op
                /\ latent_count' = IF defect THEN latent_count + 1 ELSE latent_count
                /\ events' = Append(events, Event(op_id, op, o, count, FALSE))
                /\ current_time' = o.operation_end
                /\ op_idx' = NextIndex(FALSE, NotInList)
  /\ UNCHANGED << pc, args, config, case_arrival_time, case_num, df, raised,
                  redirects, calls >>

\* lines 75-137 at the inspection, when nothing raises
StepInspection(low) ==
  /\ pc = "while"
  /\ op_idx < Len(OPERATION_SEQUENCE)
  /\ WithinRun
  /\ LET op_id == OPERATION_SEQUENCE[op_idx + 1]
         op == get_operation_by_id(op_id)
     IN /\ op # NotFound
        /\ op_id = Inspection
        /\ \E z \in NormalRaw, us \in [1 .. Len(defects_by_op) -> UniformRaw] :
           \E o \in {Occupy(op_id, op, z)},
              scan \in {Scan(defects_by_op, 1, py_state, py_tape, us)} :
             LET count == operation_counts[op_id] + 1
                 prev_op_id == defects_by_op[scan.hit].op
                 rework_op == DictGet(REWORK_ROUTES, prev_op_id, prev_op_id)
                 rework_idx == get_operation_index(OPERATION_SEQUENCE, rework_op)
             IN /\ z = Yield(np_tape, np_state, z)
                /\ LowAllowed(z, low)
                /\ low_count' = LowCounted(z)
                /\ scan.hit # 0 => rework_idx # NotInList
                /\ np_tape' = Taped(np_tape, np_state, z)
                /\ np_state' = Advance(np_state)
                /\ py_tape' = scan.tape
                /\ py_state' = scan.st
                /\ operation_counts' = [operation_counts EXCEPT ![op_id] = count]
                /\ workstation_availability' =
                     [workstation_availability EXCEPT
                        ![op_id][o.earliest_ws_idx + 1] = o.operation_end]
                /\ defects_by_op' =
                     IF scan.hit # 0
                     THEN [defects_by_op EXCEPT ![scan.hit].had = FALSE]
                     ELSE defects_by_op
                /\ redirects' =
                     IF scan.hit # 0
                     THEN Append(redirects,
                                 [case_num |-> case_num, defect |-> prev_op_id,
                                  target |-> rework_op])
                     ELSE redirects
                /\ events' = Append(events, Event(op_id, op, o, count, scan.hit # 0))
                /\ current_time' = o.operation_end
                /\ op_idx' = NextIndex(scan.hit # 0, rework_idx)
  /\ UNCHANGED << pc, args, config, case_arrival_time, case_num, df, raised,
                  latent_count, calls >>

\* line 75: the loop condition fails and the for loop takes over
EndCase ==
  /\ pc = "while"
  /\ ~(op_idx < Len(OPERATION_SEQUENCE))
  /\ pc' = "for"
  /\ UNCHANGED << args, config, py_state, np_state, py_tape, np_tape, events,
                  workstation_availability, case_arrival_time, case_num,
                  case_state, df, raised, redirects, latent_count, low_count,
                  calls >>

Finished(outcome, frame) ==
  Append(calls, [num_cases |-> num_cases, start_date |-> start_date,
                 seed |-> seed, outcome |-> outcome, df |-> frame])

\* Return with a frame that has its columns whatever the events: the frame
\* of no events sorts to itself
ReturnEmptyFrame ==
  /\ pc = "for"
  /\ ~(case_num < num_cases)
  /\ \E sorted \in {sort_values(events)} :
       /\ df' = [i \in 1 .. Len(sorted) |-> WithDuration(sorted[i])]
       /\ calls' = Finished("returned", df')
  /\ pc' = "returned"
  /\ UNCHANGED << args, config, py_state, np_state, py_tape, np_tape, events,
                  workstation_availability, case_arrival_time, case_num,
                  case_state, raised, redirects, latent_count, low_count >>

\* lines 139-148: the frame of the events, sorted, with its derived column
Return ==
  /\ pc = "for"
  /\ ~(case_num < num_cases)
  /\ events # << >>
  /\ \E sorted \in {sort_values(events)} :
       /\ df' = [i \in 1 .. Len(sorted) |-> WithDuration(sorted[i])]
       /\ calls' = Finished("returned", df')
  /\ pc' = "returned"
  /\ UNCHANGED << args, config, py_state, np_state, py_tape, np_tape, events,
                  workstation_availability, case_arrival_time, case_num,
                  case_state, raised, redirects, latent_count, low_count >>

\* lines 140-143: the frame of no events has no columns, and sort_values
\* raises KeyError for the first sort key
RaiseKeyError ==
  /\ pc = "for"
  /\ ~(case_num < num_cases)
  /\ events = << >>
  /\ pc' = "raised"
  /\ raised' = "KeyError"
  /\ calls' = Finished("KeyError", << >>)
  /\ UNCHANGED << args, config, py_state, np_state, py_tape, np_tape, events,
                  workstation_availability, case_arrival_time, case_num,
                  case_state, df, redirects, latent_count, low_count >>

\* line 77: get_operation_by_id raises for a stage the catalog lacks
RaiseUnknownStage ==
  /\ pc = "while"
  /\ op_idx < Len(OPERATION_SEQUENCE)
  /\ get_operation_by_id(OPERATION_SEQUENCE[op_idx + 1]) = NotFound
  /\ pc' = "raised"
  /\ raised' = "ValueError"
  /\ calls' = Finished("ValueError", << >>)
  /\ UNCHANGED << args, config, py_state, np_state, py_tape, np_tape, events,
                  workstation_availability, case_arrival_time, case_num,
                  case_state, df, redirects, latent_count, low_count >>

\* line 109: get_operation_index raises for a rework target the sequence
\* lacks, after lines 76-108 of the visit and before the event is appended
RaiseUnknownTarget(low) ==
  /\ pc = "while"
  /\ op_idx < Len(OPERATION_SEQUENCE)
  /\ LET op_id == OPERATION_SEQUENCE[op_idx + 1]
         op == get_operation_by_id(op_id)
     IN /\ op # NotFound
        /\ op_id = Inspection
        /\ \E z \in NormalRaw, us \in [1 .. Len(defects_by_op) -> UniformRaw] :
           \E o \in {Occupy(op_id, op, z)},
              scan \in {Scan(defects_by_op, 1, py_state, py_tape, us)} :
             LET count == operation_counts[op_id] + 1
                 prev_op_id == defects_by_op[scan.hit].op
                 rework_op == DictGet(REWORK_ROUTES, prev_op_id, prev_op_id)
                 rework_idx == get_operation_index(OPERATION_SEQUENCE, rework_op)
             IN /\ z = Yield(np_tape, np_state, z)
                /\ LowAllowed(z, low)
                /\ low_count' = LowCounted(z)
                /\ scan.hit # 0
                /\ rework_idx = NotInList
                /\ np_tape' = Taped(np_tape, np_state, z)
                /\ np_state' = Advance(np_state)
                /\ py_tape' = scan.tape
                /\ py_state' = scan.st
                /\ operation_counts' = [operation_counts EXCEPT ![op_id] = count]
                /\ workstation_availability' =
                     [workstation_availability EXCEPT
                        ![op_id][o.earliest_ws_idx + 1] = o.operation_end]
  /\ pc' = "raised"
  /\ raised' = "ValueError"
  /\ calls' = Finished("ValueError", << >>)
  /\ UNCHANGED << args, config, events, case_arrival_time, case_num,
                  current_time, defects_by_op, op_idx, df, redirects,
                  latent_count >>

Next ==
  \/ Call(CaseCounts, {DefaultSeed})
  \/ NextCase
  \/ StepOperation(MaxDefects, MaxLow)
  \/ StepInspection(MaxLow)
  \/ EndCase
  \/ Return
  \/ RaiseKeyError

Spec == Init /\ [][Next]_vars

\* ---------------------------------------- repeated calls in one process
NextDet ==
  \/ Call(0 .. FewCases, Seeds)
  \/ CallAgain(0 .. FewCases, Seeds)
  \/ NextCase
  \/ StepOperation(FewDefects, 0)
  \/ StepInspection(0)
  \/ EndCase
  \/ Return
  \/ RaiseKeyError

SpecDet == Init /\ [][NextDet]_vars

\* ------------------------------- a sequence or a rework map gone wrong
BrokenSequence == << "OP1", "OP2", "OP7", "OP4", "OP5", "OP6" >>
BrokenRoutes == [k \in {"OP2", "OP3", "OP4"} |-> IF k = "OP2" THEN "OP9" ELSE k]

InitCfg ==
  \E c \in {<< StandardSequence, StandardRoutes >>,
             << BrokenSequence, StandardRoutes >>,
             << StandardSequence, BrokenRoutes >>} : Start(c[1], c[2])

NextCfg ==
  \/ Call(1 .. (FewCases + 1), {DefaultSeed})
  \/ NextCase
  \/ StepOperation(FewDefects, 0)
  \/ StepInspection(0)
  \/ EndCase
  \/ Return
  \/ RaiseUnknownStage
  \/ RaiseUnknownTarget(0)

SpecCfg == InitCfg /\ [][NextCfg]_vars

\* --------------------- a rework map that sends a defect further back
ReroutedRoutes ==
  [k \in {"OP2", "OP3", "OP4"} |-> IF k = "OP4" THEN "OP2" ELSE k]

InitRoute ==
  \E routes \in {StandardRoutes, ReroutedRoutes} :
    Start(StandardSequence, routes)

NextRoute ==
  \/ Call(1 .. FewCases, {DefaultSeed})
  \/ NextCase
  \/ StepOperation(MaxDefects, 0)
  \/ StepInspection(0)
  \/ EndCase
  \/ Return

SpecRoute == InitRoute /\ [][NextRoute]_vars

\* ------------------------------------------- a call that runs on
\* The interpreter runs the call step after step: a step that can be taken
\* is taken.
NextLive ==
  \/ Call(0 .. FewCases, {DefaultSeed})
  \/ NextCase
  \/ StepOperation(MaxDefects, MaxLow)
  \/ StepInspection(MaxLow)
  \/ EndCase
  \/ Return
  \/ RaiseKeyError

SpecLive == Init /\ [][NextLive]_vars /\ WF_vars(NextLive)

\* ------------------------------------- the traversal below a microsecond
\* A float of minutes and a datetime, as t ticks and q quarters of a
\* microsecond with 0 <= q < QuartersPerTick; a datetime holds whole
\* microseconds.
Quarter == 2 ^ 2
QuartersPerTick == (60 * 1000000 * Quarter) \div TicksPerMinute

\* the parts of a microsecond the float draws end on: a quarter, which
\* rounds down, and one and a half, a tie that rounds up to the even one
FineRaw == {1, 6}

Fine(t, q) == [t |-> t, q |-> q]

Carry(x) ==
  [t |-> x.t + (x.q \div QuartersPerTick), q |-> x.q % QuartersPerTick]

FineAdd(a, b) == Carry([t |-> a.t + b.t, q |-> a.q + b.q])
FineSub(a, b) == Carry([t |-> a.t - b.t, q |-> a.q - b.q])
FineLess(a, b) == a.t < b.t \/ (a.t = b.t /\ a.q < b.q)
FineMax(a, b) == IF FineLess(a, b) THEN b ELSE a

\* timedelta(minutes=x): x to the nearest whole microsecond, a tie to the
\* even one
timedelta(x) ==
  LET r == x.q % Quarter
      down == x.q - r
      up == down + Quarter
  IN Carry([t |-> x.t,
            q |-> IF 2 * r < Quarter THEN down
                  ELSE IF 2 * r > Quarter THEN up
                  ELSE IF (down \div Quarter) % 2 = 0 THEN down ELSE up])

\* line 83 on datetimes
EarliestWsFine(ws) ==
  (CHOOSE i \in 1 .. Len(ws) :
     /\ \A j \in 1 .. Len(ws) : ~FineLess(ws[j], ws[i])
     /\ \A j \in 1 .. (i - 1) : FineLess(ws[i], ws[j])) - 1

\* lines 81-95 with the draw z + q: the floats wait_time, cycle_time and
\* total_time as computed, the datetimes as datetime keeps them
OccupyFine(op_id, op, z, q) ==
  LET ws_availability == workstation_availability[op_id]
      earliest_ws_idx == EarliestWsFine(ws_availability)
      earliest_available == ws_availability[earliest_ws_idx + 1]
      wait_time ==
        FineMax(Fine(0, 0), FineSub(earliest_available, current_time))
      operation_start == FineMax(current_time, earliest_available)
      cycle_time ==
        FineMax(Fine(Minutes(DurationFloor), 0),
                Fine(Normal(op.avg_duration_minutes,
                            op.std_deviation_minutes, z), q))
      total_time == FineAdd(cycle_time, Fine(Minutes(op.setup_time_minutes), 0))
      operation_end == FineAdd(operation_start, timedelta(total_time))
  IN [earliest_ws_idx |-> earliest_ws_idx, wait_time |-> wait_time,
      operation_start |-> operation_start, cycle_time |-> cycle_time,
      total_time |-> total_time, operation_end |-> operation_end]

\* the state at line 61 of a call with the default arguments and MaxCases
\* cases
InitFine ==
  /\ pc = "for"
  /\ num_cases = MaxCases /\ start_date = DefaultStartDate
  /\ seed = DefaultSeed
  /\ OPERATION_SEQUENCE = StandardSequence
  /\ REWORK_ROUTES = StandardRoutes
  /\ py_state = Seeded(DefaultSeed) /\ np_state = Seeded(DefaultSeed)
  /\ py_tape = Tapes /\ np_tape = Tapes
  /\ events = << >>
  /\ workstation_availability =
       [id \in CatalogIds |->
          [i \in 1 .. get_operation_by_id(id).workstation_count |->
             Fine(DefaultStartDate, 0)]]
  /\ case_arrival_time = Fine(DefaultStartDate, 0)
  /\ case_num = 0 /\ current_time = Fine(0, 0)
  /\ operation_counts = << >> /\ defects_by_op = << >> /\ op_idx = 0
  /\ df = << >> /\ raised = "" /\ redirects = << >> /\ latent_count = 0
  /\ low_count = 0
  /\ calls = << >>

\* lines 61-74
NextCaseFine ==
  /\ pc = "for"
  /\ case_num < num_cases
  /\ \E e \in ExpRaw, q \in FineRaw :
       case_arrival_time' =
         FineAdd(case_arrival_time,
                 timedelta(Fine(Exponential(ArrivalMean, e), q)))
  /\ case_num' = case_num + 1
  /\ current_time' = case_arrival_time'
  /\ operation_counts' = ResetCounts
  /\ defects_by_op' = << >>
  /\ op_idx' = 0
  /\ pc' = "while"
  /\ UNCHANGED << args, config, py_state, np_state, py_tape, np_tape, events,
                  workstation_availability, df, raised, redirects,
                  latent_count, low_count, calls >>

\* lines 75-137 of a visit whose random.random() draws are all at or over
\* the stage's defect_rate, so that no defect is drawn and none is there to
\* detect; the event keeps the floats as computed, before round(x, 2)
StepFine ==
  /\ pc = "while"
  /\ op_idx < Len(OPERATION_SEQUENCE)
  /\ \E z \in {SetMax(NormalRaw)}, q \in FineRaw :
       LET op_id == OPERATION_SEQUENCE[op_idx + 1]
           op == get_operation_by_id(op_id)
       IN \E o \in {OccupyFine(op_id, op, z, q)} :
            /\ operation_counts' =
                 [operation_counts EXCEPT ![op_id] = operation_counts[op_id] + 1]
            /\ workstation_availability' =
                 [workstation_availability EXCEPT
                    ![op_id][o.earliest_ws_idx + 1] = o.operation_end]
            /\ events' =
                 Append(events,
                        [case_id |-> CaseId(case_num), operation_id |-> op_id,
                         timestamp_start |-> o.operation_start,
                         timestamp_end |-> o.operation_end,
                         wait_time |-> o.wait_time,
                         cycle_time |-> o.cycle_time,
                         total_time |-> o.total_time])
            /\ current_time' = o.operation_end
  /\ op_idx' = op_idx + 1
  /\ UNCHANGED << args, config, py_state, np_state, py_tape, np_tape,
                  case_arrival_time, case_num, defects_by_op, df, raised,
                  redirects, latent_count, low_count, calls, pc >>

NextFine ==
  \/ NextCaseFine
  \/ StepFine
  \/ EndCase

SpecFine == InitFine /\ [][NextFine]_vars

\* ------------------------------------------------------------ claims
Strip(row) ==
  [case_id |-> row.case_id, activity |-> row.activity,
   operation_id |-> row.operation_id,
   timestamp_start |-> row.timestamp_start,
   timestamp_end |-> row.timestamp_end, resource |-> row.resource,
   is_rework |-> row.is_rework, rework_count |-> row.rework_count,
   wait_time_minutes |-> row.wait_time_minutes,
   cycle_time_minutes |-> row.cycle_time_minutes,
   setup_time_minutes |-> row.setup_time_minutes,
   total_time_minutes |-> row.total_time_minutes,
   defect_detected |-> row.defect_detected]

SameCall(a, b) ==
  /\ a.seed = b.seed
  /\ a.num_cases = b.num_cases
  /\ a.start_date = b.start_date

\* the cases whose traversal has ended
FinishedCases == {c \in 1 .. case_num : c < case_num \/ pc # "while"}

\* the visits of case c to a stage
Visits(c, op_id) ==
  Cardinality({i \in DOMAIN events :
                 /\ events[i].case_id = CaseId(c)
                 /\ events[i].operation_id = op_id})

\* the redirects of case c
RedirectsOf(c) == {k \in DOMAIN redirects : redirects[k].case_num = c}

SeqIndex(op_id) == get_operation_index(OPERATION_SEQUENCE, op_id)

\* C1: two calls of generate_event_log with the same seed, case count and
\* epoch end the same way and return identical event logs, whatever calls
\* the process made before and between them.
Determinism ==
  \A i, j \in DOMAIN calls :
    SameCall(calls[i], calls[j]) =>
      /\ calls[i].outcome = calls[j].outcome
      /\ calls[i].df = calls[j].df

\* a first and a third call with the same arguments, a rework among their
\* events, and a call with another seed between them
DeterminismWitness ==
  /\ Len(calls) = 3
  /\ SameCall(calls[1], calls[3])
  /\ calls[2].seed # calls[1].seed
  /\ calls[2].outcome = "returned"
  /\ calls[3].outcome = "returned"
  /\ \E i \in DOMAIN calls[3].df : calls[3].df[i].is_rework

\* C2: the intervals of the events assigned to one workstation slot never
\* overlap: an event assigned to a slot starts at or after the end of every
\* event assigned to that slot before it.
ExclusiveSlots ==
  \A i, j \in DOMAIN events :
    (i < j /\ events[i].resource = events[j].resource) =>
      events[i].timestamp_end <= events[j].timestamp_start

\* a case waits for the slot another case holds, and a rework visit takes a
\* slot used before
ExclusiveSlotsWitness ==
  /\ \E i, j \in DOMAIN events :
       /\ i < j
       /\ events[i].resource = events[j].resource
       /\ events[i].case_id # events[j].case_id
       /\ events[j].wait_time_minutes > 0
       /\ events[j].timestamp_start = events[i].timestamp_end
  /\ \E i, j \in DOMAIN events :
       /\ i < j
       /\ events[i].resource = events[j].resource
       /\ events[j].is_rework

\* C3: every event starts no later than it ends, and of two consecutive
\* events of a case the earlier ends no later than the later starts.
Causality ==
  /\ \A i \in DOMAIN events :
       events[i].timestamp_start <= events[i].timestamp_end
  /\ \A i \in DOMAIN events :
       (i < Len(events) /\ events[i].case_id = events[i + 1].case_id) =>
         events[i].timestamp_end <= events[i + 1].timestamp_start

\* a redirect followed by its rework visit, and a visit that had to wait
CausalityWitness ==
  /\ \E i \in DOMAIN events :
       /\ i < Len(events)
       /\ events[i].case_id = events[i + 1].case_id
       /\ events[i].defect_detected
       /\ events[i + 1].is_rework
  /\ \E i \in DOMAIN events :
       /\ i > 1
       /\ events[i].case_id = events[i - 1].case_id
       /\ events[i].wait_time_minutes > 0

\* C4 as claimed: a finished case's visits to a stage are 1 plus its
\* redirects whose target is that stage.
ReworkBoundAsClaimed ==
  \A c \in FinishedCases :
    \A i \in DOMAIN OPERATION_SEQUENCE :
      Visits(c, OPERATION_SEQUENCE[i]) =
        1 + Cardinality({k \in RedirectsOf(c) :
                           redirects[k].target = OPERATION_SEQUENCE[i]})

\* C4: a finished case's visits to a stage up to the inspection are 1 plus
\* its redirects whose target is that stage or a stage before it in the
\* sequence; a stage after the inspection is visited once.
ReworkBound ==
  \A c \in FinishedCases :
    \A i \in DOMAIN OPERATION_SEQUENCE :
      Visits(c, OPERATION_SEQUENCE[i]) =
        IF i - 1 <= SeqIndex(Inspection)
        THEN 1 + Cardinality({k \in RedirectsOf(c) :
                                SeqIndex(redirects[k].target) <= i - 1})
        ELSE 1

\* a finished case with two redirects to different stages
ReworkBoundWitness ==
  \E c \in FinishedCases :
    \E k, l \in RedirectsOf(c) : redirects[k].target # redirects[l].target

\* C5: the traversal of every case ends, and it ends with the sequence index
\* just past the last index of the sequence.
Termination ==
  /\ \A c \in 1 .. FewCases :
       (pc = "while" /\ case_num = c) ~>
         (pc = "for" /\ case_num = c /\ op_idx = Len(OPERATION_SEQUENCE))
  /\ [](pc = "for" /\ case_num >= 1 => op_idx = Len(OPERATION_SEQUENCE))

\* a traversal that ended after two redirects
TerminationWitness ==
  /\ pc = "for"
  /\ case_num >= 1
  /\ op_idx = Len(OPERATION_SEQUENCE)
  /\ Cardinality(RedirectsOf(case_num)) = 2

\* C6 as claimed: the recorded total duration is the recorded cycle duration
\* plus the recorded setup duration, as the floating-point numbers they are.
Conservation ==
  \A i \in DOMAIN events :
    NearestDouble(events[i].total_time_minutes) =
      FloatAdd(NearestDouble(events[i].cycle_time_minutes),
               NearestDouble(events[i].setup_time_minutes))

\* C7: a call for N >= 1 cases returns a log in which each of the N case
\* identifiers has at least one event, and no other identifier has any.
EveryCaseLogged ==
  (pc = "returned" /\ num_cases >= 1) =>
    /\ {df[i].case_id : i \in DOMAIN df} = {CaseId(k) : k \in 1 .. num_cases}
    /\ Cardinality({df[i].case_id : i \in DOMAIN df}) = num_cases

\* a returned log of two cases
EveryCaseLoggedWitness ==
  /\ pc = "returned"
  /\ num_cases = 2
  /\ Len(df) > 2 * Len(OPERATION_SEQUENCE)

\* C8: the returned log holds each emitted event exactly once and is ordered
\* by start instant, then case identifier.
LogSorted ==
  pc = "returned" =>
    /\ Len(df) = Len(events)
    /\ \A i \in DOMAIN events :
         Cardinality({j \in DOMAIN df : Strip(df[j]) = events[i]}) =
           Cardinality({j \in DOMAIN events : events[j] = events[i]})
    /\ \A i \in DOMAIN df :
         i < Len(df) =>
           \/ df[i].timestamp_start < df[i + 1].timestamp_start
           \/ /\ df[i].timestamp_start = df[i + 1].timestamp_start
              /\ ~StrLess(df[i + 1].case_id, df[i].case_id)

\* a returned log whose order is not the order of emission
LogSortedWitness ==
  /\ pc = "returned"
  /\ \E i \in DOMAIN df : Strip(df[i]) # events[i]

\* C9: a call for zero or fewer cases draws no arrival, leaves every slot of
\* the pool at the epoch, emits no event, returns no log, and ends with an
\* error.
DegenerateRejected ==
  (pc # "idle" /\ num_cases <= 0) =>
    /\ pc \in {"for", "raised"}
    /\ pc = "for" => ENABLED RaiseKeyError
    /\ pc = "raised" => raised = "KeyError"
    /\ np_state.pos = 0 /\ py_state.pos = 0
    /\ \A id \in CatalogIds :
         \A i \in DOMAIN workstation_availability[id] :
           workstation_availability[id][i] = start_date
    /\ events = << >>
    /\ df = << >>

\* a call for a negative case count that has raised
DegenerateRejectedWitness ==
  /\ pc = "raised"
  /\ num_cases < 0
  /\ calls[Len(calls)].outcome = "KeyError"

\* C10 as claimed: when the sequence or the rework map names a stage the
\* catalog lacks, the call fails before any case is started and any event
\* is emitted.
ConfigErrorUpFront ==
  (pc = "raised" /\ raised = "ValueError") =>
    /\ case_num = 0
    /\ events = << >>

\* the events of case c, by their place in the order of emission
EventsOf(c) == {i \in DOMAIN events : events[i].case_id = CaseId(c)}

\* C11: for every case of a returned log, the lead time of
\* calculate_case_lead_times is the end instant of the case's last emitted
\* event minus the start instant of its first emitted event, total_operations
\* is the number of its events and total_reworks the number of its events
\* flagged as rework.
LeadTimeAggregation ==
  pc = "returned" =>
    \A c \in 1 .. num_cases :
      /\ CaseId(c) \in DOMAIN calculate_case_lead_times(df)
      /\ calculate_case_lead_times(df)[CaseId(c)].lead_time_minutes =
           events[SetMax(EventsOf(c))].timestamp_end -
             events[SetMin(EventsOf(c))].timestamp_start
      /\ calculate_case_lead_times(df)[CaseId(c)].total_operations =
           Cardinality(EventsOf(c))
      /\ calculate_case_lead_times(df)[CaseId(c)].total_reworks =
           Cardinality({i \in EventsOf(c) : events[i].is_rework})

\* a returned log of two cases whose rows interleave, one of them reworked
LeadTimeAggregationWitness ==
  /\ pc = "returned"
  /\ num_cases = 2
  /\ \E i \in DOMAIN df :
       i + 2 <= Len(df) /\ df[i].case_id = df[i + 2].case_id
         /\ df[i + 1].case_id # df[i].case_id
  /\ \E cid \in DOMAIN calculate_case_lead_times(df) :
       calculate_case_lead_times(df)[cid].total_reworks > 0

\* the stages case c has visited, in the order of emission
Trace(c) ==
  LET ev == SelectSeq(events, LAMBDA e : e.case_id = CaseId(c))
  IN [i \in 1 .. Len(ev) |-> ev[i].operation_id]

\* C12: while no detection draw has succeeded no event is flagged as rework
\* and the trace of every finished case is the sequence itself; and every
\* event flagged as rework comes, in its case, after an inspection event
\* with defect_detected true.
NoDetectionNoRework ==
  /\ redirects = << >> =>
       /\ \A i \in DOMAIN events : ~events[i].is_rework
       /\ \A c \in FinishedCases : Trace(c) = OPERATION_SEQUENCE
  /\ \A i \in DOMAIN events :
       events[i].is_rework =>
         \E j \in 1 .. (i - 1) :
           /\ events[j].case_id = events[i].case_id
           /\ events[j].operation_id = Inspection
           /\ events[j].defect_detected

\* a returned log of two cases with no redirect, the last case with a latent
\* defect its inspection examined and did not detect
NoDetectionNoReworkWitness ==
  /\ pc = "returned"
  /\ num_cases = 2
  /\ redirects = << >>
  /\ \E k \in DOMAIN defects_by_op :
       /\ defects_by_op[k].had
       /\ SeqIndex(defects_by_op[k].op) < SeqIndex(Inspection)

\* the stages of the catalog whose defect probability is 0
ZeroRateIds ==
  {OPERATIONS[k].id : k \in {n \in DOMAIN OPERATIONS :
                                OPERATIONS[n].defect_rate = 0}}

\* C13: a stage whose defect probability is 0 never has a latent defect
\* recorded against it, and no redirect is caused by a defect of it.
ZeroRateNoDefect ==
  \A id \in ZeroRateIds :
    /\ \A k \in DOMAIN defects_by_op : defects_by_op[k].op # id
    /\ \A r \in DOMAIN redirects : redirects[r].defect # id

\* a case with two latent defects on record has been through a stage of
\* defect probability 0 twice, a detection at it in between
ZeroRateNoDefectWitness ==
  /\ Len(defects_by_op) >= 2
  /\ \E i, j \in DOMAIN events :
       /\ i < j
       /\ events[i].case_id = events[j].case_id
       /\ events[i].operation_id \in ZeroRateIds
       /\ events[j].operation_id = events[i].operation_id
       /\ events[i].defect_detected

\* the identifiers the sequence and the rework map name
ReferencedIds ==
  Range(OPERATION_SEQUENCE) \cup
    {REWORK_ROUTES[k] : k \in DOMAIN REWORK_ROUTES} \cup DOMAIN REWORK_ROUTES

\* C14: get_operation_by_id returns the catalog's definition of the
\* identifier it is given when the catalog has one, and fails with
\* ValueError, returning no stage, when it has none; a call that ended with
\* ValueError at a stage lookup stands at an identifier the catalog lacks.
CatalogLookup ==
  /\ \A id \in ReferencedIds \cup CatalogIds :
       IF id \in CatalogIds
       THEN /\ get_operation_by_id(id) \in Range(OPERATIONS)
            /\ get_operation_by_id(id).id = id
       ELSE get_operation_by_id(id) = NotFound
  /\ (pc = "raised" /\ raised = "ValueError" /\ op_idx < Len(OPERATION_SEQUENCE)
        /\ OPERATION_SEQUENCE[op_idx + 1] # Inspection) =>
       OPERATION_SEQUENCE[op_idx + 1] \notin CatalogIds

\* a call that failed at the lookup of a stage the catalog lacks, after
\* lookups that succeeded
CatalogLookupWitness ==
  /\ pc = "raised"
  /\ raised = "ValueError"
  /\ events # << >>
  /\ OPERATION_SEQUENCE[op_idx + 1] \notin CatalogIds

\* the slot (1-based) the event names is one of the stage `id` whose
\* next-available instant in `pool` is the least, and the first such
FirstEarliest(pool, id, slot) ==
  /\ slot \in DOMAIN pool[id]
  /\ \A j \in DOMAIN pool[id] : pool[id][slot] <= pool[id][j]
  /\ \A j \in 1 .. (slot - 1) : pool[id][j] > pool[id][slot]

\* C15: every stage visit takes a slot whose next-available instant is the
\* least of the stage's pool, the lowest-numbered one among equals, and the
\* event's resource names the visited stage and that slot (index + 1).
SlotChoice ==
  [][Len(events') = Len(events) + 1 =>
       /\ events'[Len(events')].resource[1] = OPERATION_SEQUENCE[op_idx + 1]
       /\ events'[Len(events')].operation_id = OPERATION_SEQUENCE[op_idx + 1]
       /\ FirstEarliest(workstation_availability,
                        OPERATION_SEQUENCE[op_idx + 1],
                        events'[Len(events')].resource[2])]_vars

\* a stage has had its second slot taken, the first one's instant being the
\* later one, and its first slot taken again after that
SlotChoiceWitness ==
  \E i, j \in DOMAIN events :
    /\ i < j
    /\ events[i].operation_id = events[j].operation_id
    /\ events[i].resource[2] = 2
    /\ events[j].resource[2] = 1

\* the next-available instant, before the step, of the slot the step's
\* event names
SlotInstant ==
  workstation_availability[OPERATION_SEQUENCE[op_idx + 1]]
                          [events'[Len(events')].resource[2]]

\* C16: the wait of every event is max(0, slot's instant - cursor), recorded
\* to two decimals, and its start is max(cursor, slot's instant), which is
\* the cursor plus that wait; the wait is never negative; the cursor is the
\* case's arrival instant at its first event and the end of its previous
\* event otherwise.
WaitAndStart ==
  [][Len(events') = Len(events) + 1 =>
       /\ current_time =
            IF EventsOf(case_num) = {} THEN case_arrival_time
            ELSE events[Len(events)].timestamp_end
       /\ events'[Len(events')].wait_time_minutes =
            Round2(Max(0, SlotInstant - current_time))
       /\ events'[Len(events')].wait_time_minutes >= 0
       /\ events'[Len(events')].timestamp_start =
            Max(current_time, SlotInstant)
       /\ events'[Len(events')].timestamp_start =
            current_time + Max(0, SlotInstant - current_time)]_vars

\* an event that waited for its slot, and the first event of a second case
\* on a slot free since before the case arrived
WaitAndStartWitness ==
  /\ \E i \in DOMAIN events : events[i].wait_time_minutes > 0
  /\ \E i \in DOMAIN events :
       /\ i > 1
       /\ events[i].case_id # events[i - 1].case_id
       /\ events[i].wait_time_minutes = 0
       /\ events[i].timestamp_start = case_arrival_time
       /\ \E j \in 1 .. (i - 1) :
            /\ events[j].resource = events[i].resource
            /\ events[j].timestamp_end < events[i].timestamp_start

\* the entries of defects_by_op, before the step, that the scan of the
\* step's inspection went through: the unresolved ones up to the one found
Examined ==
  {k \in 1 .. KeyPos(defects_by_op, redirects'[Len(redirects')].defect, 1) :
     defects_by_op[k].had}

\* C17: an inspection visit examines the case's unresolved latent defects
\* in insertion order, one detection draw each, up to the first draw under
\* the detection rate; when the draw for the defect of stage s succeeds the
\* event has defect_detected true and the case's next event is at the stage
\* the rework map gives for s, or at s when s is not a key of the map.
RedirectRule ==
  [][Len(events') = Len(events) + 1 =>
       /\ (OPERATION_SEQUENCE[op_idx + 1] = Inspection
             /\ events'[Len(events')].defect_detected) =>
            /\ Len(redirects') = Len(redirects) + 1
            /\ KeyPos(defects_by_op, redirects'[Len(redirects')].defect, 1)
                 \in Examined
            /\ py_state'.pos = py_state.pos + Cardinality(Examined)
            /\ \A n \in 1 .. Cardinality(Examined) :
                 (py_tape'[py_state.seed][py_state.pos + n] < DetectionRate)
                   <=> n = Cardinality(Examined)
            /\ redirects'[Len(redirects')].target =
                 IF redirects'[Len(redirects')].defect \in DOMAIN REWORK_ROUTES
                 THEN REWORK_ROUTES[redirects'[Len(redirects')].defect]
                 ELSE redirects'[Len(redirects')].defect
            /\ OPERATION_SEQUENCE[op_idx' + 1] =
                 redirects'[Len(redirects')].target
       /\ (events # << >> /\ events[Len(events)].defect_detected) =>
            /\ events'[Len(events')].case_id = events[Len(events)].case_id
            /\ events'[Len(events')].operation_id =
                 redirects[Len(redirects)].target]_vars

\* a finished case with two redirects: the first for a defect the map sends
\* to another stage, found after the draw for an older defect failed, the
\* second for that older defect, of a stage the map has no key for
RedirectRuleWitness ==
  /\ pc = "for"
  /\ case_num = 1
  /\ \E k, l \in DOMAIN redirects :
       /\ k < l
       /\ redirects[k].target # redirects[k].defect
       /\ redirects[l].defect \notin DOMAIN REWORK_ROUTES
       /\ redirects[l].target = redirects[l].defect
       /\ KeyPos(defects_by_op, redirects[l].defect, 1) <
            KeyPos(defects_by_op, redirects[k].defect, 1)

\* the latent defects of the case that are set
Unresolved == {k \in DOMAIN defects_by_op : defects_by_op[k].had}

\* the latent defects an inspection step has cleared
ClearedByStep == {k \in Unresolved : ~defects_by_op'[k].had}

\* C18: an inspection visit makes at most one redirect; with a detection it
\* clears the one latent defect whose draw succeeded, draws for no defect
\* after it and leaves every other latent defect as it was; without a
\* detection it draws for every unresolved defect and changes none.
OneRedirectPerVisit ==
  [][(Len(events') = Len(events) + 1
        /\ OPERATION_SEQUENCE[op_idx + 1] = Inspection) =>
       /\ Len(redirects') <= Len(redirects) + 1
       /\ events'[Len(events')].defect_detected
            <=> Len(redirects') = Len(redirects) + 1
       /\ DOMAIN defects_by_op' = DOMAIN defects_by_op
       /\ \A k \in DOMAIN defects_by_op :
            k \notin ClearedByStep => defects_by_op'[k] = defects_by_op[k]
       /\ IF events'[Len(events')].defect_detected
          THEN \E h \in Unresolved :
                 /\ ClearedByStep = {h}
                 /\ defects_by_op'[h].op = defects_by_op[h].op
                 /\ py_state'.pos - py_state.pos =
                      Cardinality({k \in Unresolved : k <= h})
                 /\ py_tape'[py_state.seed][py_state'.pos] < DetectionRate
                 /\ \A n \in (py_state.pos + 1) .. (py_state'.pos - 1) :
                      py_tape'[py_state.seed][n] >= DetectionRate
          ELSE /\ ClearedByStep = {}
               /\ py_state'.pos - py_state.pos = Cardinality(Unresolved)
               /\ \A n \in (py_state.pos + 1) .. py_state'.pos :
                    py_tape'[py_state.seed][n] >= DetectionRate]_vars

\* the case at hand had two latent defects at an inspection visit that
\* detected the newer one, and the older one, left set, was detected at a
\* later inspection visit
OneRedirectPerVisitWitness ==
  \E k, l \in RedirectsOf(case_num) :
    /\ k < l
    /\ KeyPos(defects_by_op, redirects[l].defect, 1) <
         KeyPos(defects_by_op, redirects[k].defect, 1)
    /\ Unresolved = {}

\* C19: an event of a stage other than the inspection has defect_detected
\* false; an event with defect_detected false is followed, in its case, by
\* an event of the stage at the next index of the sequence, a latent defect
\* recorded at it or not, and is the last event of a finished case only at
\* the last stage of the sequence.
NormalProgression ==
  /\ \A i \in DOMAIN events :
       events[i].operation_id # Inspection => ~events[i].defect_detected
  /\ \A i \in DOMAIN events :
       ~events[i].defect_detected =>
         IF i < Len(events) /\ events[i + 1].case_id = events[i].case_id
         THEN SeqIndex(events[i + 1].operation_id) =
                SeqIndex(events[i].operation_id) + 1
         ELSE (i < Len(events) \/ pc # "while") =>
                events[i].operation_id =
                  OPERATION_SEQUENCE[Len(OPERATION_SEQUENCE)]

\* the case at hand has gone on to the next stage from a stage that left a
\* latent defect, and on from an inspection that examined the defect and
\* did not detect it
NormalProgressionWitness ==
  \E i, j \in EventsOf(case_num) :
    /\ i < j
    /\ j < Len(events)
    /\ \E k \in Unresolved : defects_by_op[k].op = events[i].operation_id
    /\ events[i + 1].operation_id # events[i].operation_id
    /\ events[j].operation_id = Inspection
    /\ ~events[j].defect_detected

\* C20: the visit count an event records is the number of events of its
\* case at its stage emitted up to and including it, the rework flag is
\* true exactly when that count is over 1, and the counters of the case at
\* hand are the numbers of its events at each stage, zero when it starts.
ReworkClassification ==
  /\ \A i \in DOMAIN events :
       /\ events[i].rework_count =
            Cardinality({j \in 1 .. i :
                           /\ events[j].case_id = events[i].case_id
                           /\ events[j].operation_id = events[i].operation_id})
       /\ events[i].is_rework <=> events[i].rework_count > 1
  /\ case_num >= 1 =>
       \A id \in Range(OPERATION_SEQUENCE) :
         operation_counts[id] = Visits(case_num, id)

\* a second case makes its first visit to a stage the first case visited
\* three times
ReworkClassificationWitness ==
  \E i, j \in DOMAIN events :
    /\ i < j
    /\ events[i].operation_id = events[j].operation_id
    /\ events[i].case_id # events[j].case_id
    /\ events[i].rework_count = 3
    /\ events[j].rework_count = 1
    /\ ~events[j].is_rework

\* C21: from the start of the call every stage's pool has workstation_count
\* slots, all at the epoch when the call starts; a stage visit sets the slot
\* its event names to the event's end instant and leaves every other slot
\* of every stage as it was; no step of the call lowers a slot's instant.
PoolLifecycle ==
  /\ [](pc # "idle" =>
         \A k \in DOMAIN OPERATIONS :
           Len(workstation_availability[OPERATIONS[k].id]) =
             OPERATIONS[k].workstation_count)
  /\ [][
         /\ pc = "idle" =>
            \A id \in CatalogIds :
              \A i \in DOMAIN workstation_availability'[id] :
                workstation_availability'[id][i] = start_date'
         /\ pc # "idle" =>
            \A id \in CatalogIds :
              \A i \in DOMAIN workstation_availability[id] :
                workstation_availability'[id][i] >=
                  workstation_availability[id][i]
         /\ (pc # "idle" /\ Len(events') = Len(events)) =>
            workstation_availability' = workstation_availability
         /\ Len(events') = Len(events) + 1 =>
            \A id \in CatalogIds :
              \A i \in DOMAIN workstation_availability[id] :
                workstation_availability'[id][i] =
                  IF << id, i >> = events'[Len(events')].resource
                  THEN events'[Len(events')].timestamp_end
                  ELSE workstation_availability[id][i]]_vars

\* a stage of three slots after two visits: two slots taken, the third
\* still at the epoch
PoolLifecycleWitness ==
  \E id \in CatalogIds :
    /\ Len(workstation_availability[id]) = 3
    /\ workstation_availability[id][1] > start_date
    /\ workstation_availability[id][2] > workstation_availability[id][1]
    /\ workstation_availability[id][3] = start_date

\* C22: the arrival instant of a case is never before the arrival instant
\* of the case before it nor before the epoch; the events of the log are in
\* the order of their case numbers, every event of a case emitted before
\* the first event of the next case; and the slot of every emitted event
\* has been committed to the event's end instant or a later one.
ArrivalOrder ==
  /\ [](pc # "idle" => case_arrival_time >= start_date)
  /\ [][case_num' = case_num + 1 =>
          /\ case_arrival_time' >= case_arrival_time
          /\ case_arrival_time' >= start_date
          /\ current_time' = case_arrival_time'
          /\ events' = events
          /\ \A i \in DOMAIN events : events[i].case_id # CaseId(case_num')]_vars
  /\ [](\A i, j \in DOMAIN events :
          i < j => ~StrLess(events[j].case_id, events[i].case_id))
  /\ [](\A i \in DOMAIN events :
          /\ events[i].case_id \in {CaseId(c) : c \in 1 .. case_num}
          /\ workstation_availability[events[i].resource[1]]
                                     [events[i].resource[2]] >=
               events[i].timestamp_end)

\* a second case has started a stage before the first case's last event
\* ended, its events emitted after all those of the first case
ArrivalOrderWitness ==
  \E i, j \in DOMAIN events :
    /\ i < j
    /\ events[i].case_id = CaseId(1)
    /\ events[j].case_id = CaseId(2)
    /\ events[j].timestamp_start < events[i].timestamp_end
    /\ case_arrival_time > start_date

\* the catalog entry of an event's stage
StageOf(e) == CHOOSE op \in Range(OPERATIONS) : op.id = e.operation_id

\* the length of an event less the setup duration of its stage: its cycle
\* duration, in ticks
CycleOf(e) ==
  e.timestamp_end - e.timestamp_start - Minutes(StageOf(e).setup_time_minutes)

\* the normal draw of the step, scaled to the stage of the step's event
DrawnDuration ==
  Minutes(StageOf(events'[Len(events')]).avg_duration_minutes) +
    StageOf(events'[Len(events')]).std_deviation_minutes *
      np_tape'[np_state.seed][np_state'.pos]

SingleStream ==
  pc # "idle" => (py_state.pos = 0 \/ np_state.pos = 0)

\* C25 as claimed: an event with a wait over 0 is of a visit at whose
\* cursor instant every slot of the stage was occupied: for each slot an
\* event emitted before has the slot and has start <= cursor < end.
WaitsOnlyWhenBusy ==
  [][(Len(events') = Len(events) + 1
        /\ events'[Len(events')].wait_time_minutes > 0) =>
       \A i \in DOMAIN workstation_availability[OPERATION_SEQUENCE[op_idx + 1]] :
         \E k \in DOMAIN events :
           /\ events[k].resource = << OPERATION_SEQUENCE[op_idx + 1], i >>
           /\ events[k].timestamp_start <= current_time
           /\ current_time < events[k].timestamp_end]_vars

\* the instants at which an in_progress count of the log can change upward
StartInstants == {df[i].timestamp_start : i \in DOMAIN df}

\* C26: in a returned log the in_progress count of a stage is at no instant
\* over the stage's workstation_count: not at a snapshot of
\* calculate_wip_by_step, at the default interval or at a quarter of an
\* hour, and not at the start instant of any event, where the count of an
\* instant is the greatest.
WipBound ==
  pc = "returned" =>
    /\ \A interval \in {15, 60} :
         LET wip == calculate_wip_by_step(df, interval)
         IN \A t \in DOMAIN wip :
              \A id \in Range(OPERATION_SEQUENCE) :
                wip[t][id] <= StageOf([operation_id |-> id]).workstation_count
    /\ \A t \in StartInstants :
         \A id \in Range(OPERATION_SEQUENCE) :
           InProgress(df, id, t) <=
             StageOf([operation_id |-> id]).workstation_count

\* a returned log with both slots of a stage in use at one instant, and an
\* event of a stage that starts at the instant another one of it ends
WipBoundWitness ==
  /\ pc = "returned"
  /\ \E t \in StartInstants :
       \E id \in Range(OPERATION_SEQUENCE) :
         /\ InProgress(df, id, t) = 2
         /\ StageOf([operation_id |-> id]).workstation_count = 2
  /\ \E i, j \in DOMAIN df :
       /\ df[i].operation_id = df[j].operation_id
       /\ df[i].case_id # df[j].case_id
       /\ df[i].timestamp_end = df[j].timestamp_start

\* the events and the redirects of case c, in the order of emission
CaseEvents(c) == SelectSeq(events, LAMBDA e : e.case_id = CaseId(c))

CaseRedirects(c) == SelectSeq(redirects, LAMBDA r : r.case_num = c)

\* the visits the first n redirects of case c add: for each the stages from
\* its target to the inspection
RECURSIVE Retraversed(_, _)
Retraversed(c, n) ==
  IF n = 0 THEN 0
  ELSE Retraversed(c, n - 1)
         + (SeqIndex(Inspection) - SeqIndex(CaseRedirects(c)[n].target) + 1)

\* C27: the events of a case walk the sequence one index at a time, except
\* after an event that found a defect, which is an inspection event and is
\* followed by the target of the case's redirect of the same rank; so for a
\* finished case a stage at index i up to the inspection has 1 visit plus
\* one for every redirect of the case with a target index of i or less, and
\* the case has as many events as the sequence has stages plus, for every
\* redirect, the stages from its target to the inspection.
ReworkTail ==
  /\ \A c \in 1 .. case_num :
       LET ev == CaseEvents(c)
           rd == CaseRedirects(c)
           found(p) == Cardinality({q \in 1 .. p : ev[q].defect_detected})
       IN /\ found(Len(ev)) = Len(rd)
          /\ \A p \in DOMAIN ev :
               /\ ev[p].defect_detected => ev[p].operation_id = Inspection
               /\ p < Len(ev) =>
                    ev[p + 1].operation_id =
                      IF ev[p].defect_detected
                      THEN rd[found(p)].target
                      ELSE OPERATION_SEQUENCE[SeqIndex(ev[p].operation_id) + 2]
  /\ \A c \in FinishedCases :
       LET rd == CaseRedirects(c)
       IN /\ \A i \in 0 .. SeqIndex(Inspection) :
               Visits(c, OPERATION_SEQUENCE[i + 1]) =
                 1 + Cardinality({n \in DOMAIN rd :
                                    SeqIndex(rd[n].target) <= i})
          /\ Len(CaseEvents(c)) =
               Len(OPERATION_SEQUENCE) + Retraversed(c, Len(rd))

\* a finished case redirected first to a later stage, then to an earlier
\* one, and another finished case with no redirect
ReworkTailWitness ==
  /\ \E c \in FinishedCases :
       /\ Len(CaseRedirects(c)) = 2
       /\ SeqIndex(CaseRedirects(c)[1].target) >
            SeqIndex(CaseRedirects(c)[2].target)
       /\ Len(CaseEvents(c)) > Len(OPERATION_SEQUENCE) + 2
  /\ \E c \in FinishedCases : Len(CaseRedirects(c)) = 0

\* C28: the events of a case start with the stages of the sequence in
\* order up to the last but one, which is the inspection; an event of the
\* final stage is the last of its case, is not flagged as rework and finds
\* no defect; a finished case ends with an inspection event that found no
\* defect followed by its one event of the final stage; and a latent defect
\* of the final stage, set only once the traversal is over, is no
\* redirect's defect, nor is the final stage a redirect's target.
ExitShape ==
  LET last == Len(OPERATION_SEQUENCE)
  IN /\ \A c \in 1 .. case_num :
          LET ev == CaseEvents(c)
              n == Len(ev)
          IN /\ \A p \in DOMAIN ev :
                  /\ p < last => ev[p].operation_id = OPERATION_SEQUENCE[p]
                  /\ ev[p].operation_id = OPERATION_SEQUENCE[last] =>
                       /\ p = n
                       /\ ~ev[p].is_rework
                       /\ ev[p].rework_count = 1
                       /\ ~ev[p].defect_detected
             /\ c \in FinishedCases =>
                  /\ n >= last
                  /\ ev[n].operation_id = OPERATION_SEQUENCE[last]
                  /\ ev[n - 1].operation_id = OPERATION_SEQUENCE[last - 1]
                  /\ ~ev[n - 1].defect_detected
                  /\ Visits(c, OPERATION_SEQUENCE[last]) = 1
     /\ \A k \in DOMAIN redirects :
          /\ redirects[k].defect # OPERATION_SEQUENCE[last]
          /\ redirects[k].target # OPERATION_SEQUENCE[last]
     /\ \A k \in DOMAIN defects_by_op :
          (defects_by_op[k].op = OPERATION_SEQUENCE[last]
             /\ defects_by_op[k].had) => op_idx = last

\* a case that ended after a redirect with a latent defect of the final
\* stage left in its map
ExitShapeWitness ==
  /\ pc = "for"
  /\ case_num >= 1
  /\ Len(CaseRedirects(case_num)) >= 1
  /\ \E k \in DOMAIN defects_by_op :
       /\ defects_by_op[k].op = OPERATION_SEQUENCE[Len(OPERATION_SEQUENCE)]
       /\ defects_by_op[k].had

\* C29: the events of a case start at strictly increasing instants in the
\* order of emission; so in a returned log the rows of every case are its
\* events in the order of emission, and the trace discover_real_flow builds
\* for the case from the log is the joined sequence of the stages the case
\* went through, the standard trace when it went through each stage once.
SortKeepsCaseOrder ==
  /\ \A i, j \in DOMAIN events :
       (i < j /\ events[i].case_id = events[j].case_id) =>
         events[i].timestamp_start < events[j].timestamp_start
  /\ pc = "returned" =>
       /\ DOMAIN traces(df) = {CaseId(c) : c \in 1 .. case_num}
       /\ \A c \in 1 .. case_num :
            LET rows == SelectSeq(df, LAMBDA r : r.case_id = CaseId(c))
            IN /\ [k \in DOMAIN rows |-> Strip(rows[k])] = CaseEvents(c)
               /\ traces(df)[CaseId(c)] = Join(Trace(c))
               /\ (\A id \in Range(OPERATION_SEQUENCE) : Visits(c, id) = 1)
                    => traces(df)[CaseId(c)] = standard_trace

\* a returned log whose rows alternate between two cases, one of them with
\* a redirect and the other with the standard trace
SortKeepsCaseOrderWitness ==
  /\ pc = "returned"
  /\ \E i \in DOMAIN df :
       /\ i + 2 <= Len(df)
       /\ df[i].case_id # df[i + 1].case_id
       /\ df[i + 1].case_id # df[i + 2].case_id
  /\ \E cid \in DOMAIN traces(df) : traces(df)[cid] = standard_trace
  /\ \E c \in 1 .. case_num :
       /\ Len(CaseRedirects(c)) >= 1
       /\ traces(df)[CaseId(c)] # standard_trace

\* the sum of a sequence of floats of minutes
RECURSIVE FineSum(_)
FineSum(xs) ==
  IF xs = << >> THEN Fine(0, 0) ELSE FineAdd(Head(xs), FineSum(Tail(xs)))

\* C30: with the durations as computed, before round(x, 2), the first event
\* of a case starts at the case's arrival instant plus the event's wait; and
\* the lead time of a case that went through the sequence, its last end
\* instant less its first start instant, is the sum of the total durations
\* of its events plus the sum of the waits of all of them but the first,
\* and so is not less than the sum of the total durations.
LeadTimeDecomposition ==
  \A c \in 1 .. case_num :
    LET ev == CaseEvents(c)
        totals == FineSum([k \in DOMAIN ev |-> ev[k].total_time])
        waits == FineSum([k \in 1 .. (Len(ev) - 1) |-> ev[k + 1].wait_time])
        lead_time == FineSub(ev[Len(ev)].timestamp_end, ev[1].timestamp_start)
    IN /\ (c = case_num /\ ev # << >>) =>
            ev[1].timestamp_start = FineAdd(case_arrival_time, ev[1].wait_time)
       /\ Len(ev) = Len(OPERATION_SEQUENCE) =>
            /\ lead_time = FineAdd(totals, waits)
            /\ ~FineLess(lead_time, totals)

====
